---- MODULE Spec2Model ----
(***************************************************************************)
(* Headers synchronization scheduler (relays/ethereum/src/sync.rs,         *)
(* HeadersSync) together with the headers queue it owns (QueuedHeaders).   *)
(* The scheduler is translated from sync.rs.  The queue lives in           *)
(* crate::headers, which is outside the available sources: it is modelled  *)
(* from its specification, from the documentation comments of sync.rs and  *)
(* from the calls and assertions of the tests of sync.rs.                  *)
(***************************************************************************)
EXTENDS Integers, Sequences, FiniteSets, TLC

\* ------------------------------------------------------------------ bounds
\* Header numbers range over 0..MaxNumber.
MaxNumber == 2
\* The side chain forks off the main chain above this number.
ForkNumber == MaxNumber - 2

\* ------------------------------------------------------------- data model
\* Option<T>: None, or Some(x) holding x as Some(x)[1]
None == <<>>
Some(x) == <<x>>

\* Two hashes per number: MainHash is the best chain, SideHash a fork.
MainHash == "a"
SideHash == "b"
Hashes == {MainHash, SideHash}
Numbers == 0..MaxNumber
\* the heights the source node reports
SourceNumbers == {MaxNumber - 1, MaxNumber}

\* HeaderId(number, hash): id[1] is the number (`.0`), id[2] the hash (`.1`).
\* Side-chain headers exist above the fork point only.
HeaderIds ==
    {id \in Numbers \X Hashes : id[2] = MainHash \/ id[1] > ForkNumber}

\* header.parent_id(): the header one number below; the first side header
\* above the fork point has a main-chain parent.  A header of number 0 has
\* no parent in the bounded universe.
NoParent == <<-1, MainHash>>
ParentId(id) ==
    IF id[1] = 0 THEN NoParent
    ELSE IF id[1] = ForkNumber + 1 THEN <<id[1] - 1, MainHash>>
    ELSE <<id[1] - 1, id[2]>>

\* P::estimate_size(header): 1 for main-chain headers, 2 for side headers.
EstimateSize(id) == IF id[2] = MainHash THEN 1 ELSE 2

\* HeaderStatus
Unknown == "Unknown"
MaybeOrphan == "MaybeOrphan"
Orphan == "Orphan"
MaybeExtra == "MaybeExtra"
Ready == "Ready"
Submitted == "Submitted"
Synced == "Synced"
QueueStatuses == {MaybeOrphan, Orphan, MaybeExtra, Ready, Submitted}
Statuses == QueueStatuses \cup {Unknown, Synced}

\* TargetTransactionMode
Signed == "Signed"
Unsigned == "Unsigned"
Backup == "Backup"
TargetTransactionModes == {Signed, Unsigned, Backup}

\* saturating_sub on unsigned numbers
SaturatingSub(a, b) == IF a >= b THEN a - b ELSE 0

Max(a, b) == IF a >= b THEN a ELSE b

\* ----------------------------------------------------------- QueuedHeaders
\* One set of ids per status queue, the index of every known id, and the
\* prune border.
NewQueue ==
    [ maybe_orphan |-> {}, orphan |-> {}, maybe_extra |-> {},
      ready |-> {}, submitted |-> {},
      known_headers |-> [id \in HeaderIds |-> Unknown],
      prune_border |-> 0 ]

\* queue(status): the ids held by the queue of that status
QueueOf(q, status) ==
    CASE status = MaybeOrphan -> q.maybe_orphan
      [] status = Orphan -> q.orphan
      [] status = MaybeExtra -> q.maybe_extra
      [] status = Ready -> q.ready
      [] status = Submitted -> q.submitted
      [] OTHER -> {}

\* every id held by some status queue
Tracked(q) ==
    q.maybe_orphan \cup q.orphan \cup q.maybe_extra \cup q.ready \cup q.submitted

\* status(id)
Status(q, id) == IF id \in HeaderIds THEN q.known_headers[id] ELSE Unknown

\* total_headers()
TotalHeaders(q) ==
    Cardinality(q.maybe_orphan) + Cardinality(q.orphan)
    + Cardinality(q.maybe_extra) + Cardinality(q.ready)
    + Cardinality(q.submitted)

\* headers_in_status(status)
HeadersInStatus(q, status) == Cardinality(QueueOf(q, status))

SetMax(S) == CHOOSE x \in S : \A y \in S : y <= x

\* best_queued_number(): the largest number over all queues, zero if empty
BestQueuedNumber(q) ==
    IF Tracked(q) = {} THEN 0 ELSE SetMax({id[1] : id \in Tracked(q)})

\* prune_border()
PruneBorder(q) == q.prune_border

\* remove ids from every queue
RemoveFromQueues(q, ids) ==
    [q EXCEPT !.maybe_orphan = @ \ ids, !.orphan = @ \ ids,
              !.maybe_extra = @ \ ids, !.ready = @ \ ids,
              !.submitted = @ \ ids]

\* insert ids into the queue of `status`
InsertIntoQueue(q, status, ids) ==
    CASE status = MaybeOrphan -> [q EXCEPT !.maybe_orphan = @ \cup ids]
      [] status = Orphan -> [q EXCEPT !.orphan = @ \cup ids]
      [] status = MaybeExtra -> [q EXCEPT !.maybe_extra = @ \cup ids]
      [] status = Ready -> [q EXCEPT !.ready = @ \cup ids]
      [] status = Submitted -> [q EXCEPT !.submitted = @ \cup ids]
      [] OTHER -> q

\* record `status` for ids in the index
SetHeaderStatus(q, ids, status) ==
    [q EXCEPT !.known_headers =
        [id \in HeaderIds |-> IF id \in ids THEN status ELSE @[id]]]

\* a move that leaves the ids in the queue they come from
MoveToKeeping(q, ids, status) ==
    SetHeaderStatus(InsertIntoQueue(q, status, ids), ids, status)

\* move ids (already removed from their queues or not) to the `status` queue
MoveTo(q, ids, status) ==
    SetHeaderStatus(InsertIntoQueue(RemoveFromQueues(q, ids), status, ids),
                    ids, status)

RECURSIVE DescendantsFrom(_, _)
\* the headers of `pool` reachable from `parents` by parent links that stay
\* inside `pool` (level by level, as the queue walks numbers upwards)
DescendantsFrom(pool, parents) ==
    LET children == {h \in pool : ParentId(h) \in parents}
    IN  IF children = {} THEN {}
        ELSE children \cup DescendantsFrom(pool \ children, children)

\* move_header_descendants: every descendant of `id` found in the source
\* queues goes to the destination queue
MoveHeaderDescendants(q, sources, destination, id) ==
    LET pool == UNION {QueueOf(q, s) : s \in sources}
    IN  MoveTo(q, DescendantsFrom(pool, {id}), destination)

\* header_response that does not look whether the id is already known
QHeaderResponseAgain(q, id) ==
    IF id[1] < q.prune_border THEN q
    ELSE LET parent_status == Status(q, ParentId(id))
             status == IF parent_status \in {Unknown, MaybeOrphan} THEN MaybeOrphan
                       ELSE IF parent_status = Orphan THEN Orphan
                       ELSE MaybeExtra
         IN  MoveTo(q, {id}, status)

\* header_response(header)
QHeaderResponse(q, id) ==
    IF Status(q, id) # Unknown THEN q
    ELSE IF id[1] < q.prune_border THEN q
    ELSE LET parent_status == Status(q, ParentId(id))
             status == IF parent_status \in {Unknown, MaybeOrphan} THEN MaybeOrphan
                       ELSE IF parent_status = Orphan THEN Orphan
                       ELSE MaybeExtra
         IN  MoveTo(q, {id}, status)

\* maybe_orphan_response(id, response): id is the parent that was probed
QMaybeOrphanResponse(q, id, response) ==
    IF ~response
    THEN MoveHeaderDescendants(q, {MaybeOrphan}, Orphan, id)
    ELSE MoveHeaderDescendants(q, {MaybeOrphan, Orphan}, MaybeExtra, id)

\* maybe_extra_response(id, response)
QMaybeExtraResponse(q, id, response) ==
    IF id \in q.maybe_extra /\ ~response THEN MoveTo(q, {id}, Ready) ELSE q

RECURSIVE QueuedAncestors(_, _)
\* id and its ancestors, walked downwards while they are in some queue
QueuedAncestors(q, id) ==
    IF Status(q, id) \in QueueStatuses
    THEN {id} \cup QueuedAncestors(q, ParentId(id))
    ELSE {}

\* target_best_header_response(id) of the queue
QTargetBestHeaderResponse(q, id) ==
    LET synced == QueuedAncestors(q, id) \cup {id}
        q1 == SetHeaderStatus(RemoveFromQueues(q, synced), synced, Synced)
    IN  MoveHeaderDescendants(q1, {Orphan, MaybeOrphan}, MaybeExtra, id)

\* headers_submitted(ids)
QHeadersSubmitted(q, ids) == MoveTo(q, ids \cap q.ready, Submitted)

\* prune(border) that takes any border
QPruneAlways(q, border) ==
    LET ancient == {id \in HeaderIds : id[1] < border}
        q1 == SetHeaderStatus(RemoveFromQueues(q, ancient), ancient, Unknown)
    IN  [q1 EXCEPT !.prune_border = border]

\* prune(prune_border)
QPrune(q, border) ==
    IF border <= q.prune_border THEN q
    ELSE LET ancient == {id \in HeaderIds : id[1] < border}
             q1 == SetHeaderStatus(RemoveFromQueues(q, ancient), ancient, Unknown)
         IN  [q1 EXCEPT !.prune_border = border]

\* clear()
QClear(q) == NewQueue

\* HeaderId order: by number, the hash breaking ties
IdLess(a, b) == a[1] < b[1] \/ (a[1] = b[1] /\ a[2] = MainHash /\ b[2] = SideHash)

RECURSIVE SortIds(_)
\* the ids of a set in ascending order
SortIds(S) ==
    IF S = {} THEN <<>>
    ELSE LET least == CHOOSE x \in S : \A y \in S \ {x} : IdLess(x, y)
         IN  <<least>> \o SortIds(S \ {least})

RECURSIVE TakeWhileEachFits(_, _, _, _, _, _)
\* the closure comparing each header's own size, not the running total,
\* with the size cap
TakeWhileEachFits(p, ids, i, total_size, total_headers, headers_to_submit_count) ==
    IF i > Len(ids) THEN <<>>
    ELSE IF total_headers = headers_to_submit_count THEN <<>>
    ELSE IF total_headers = p.max_headers_in_single_submit THEN <<>>
    ELSE LET encoded_size == EstimateSize(ids[i])
         IN  IF total_headers # 0
                  /\ encoded_size > p.max_headers_size_in_single_submit
             THEN <<>>
             ELSE <<ids[i]>> \o TakeWhileEachFits(p, ids, i + 1, total_size + encoded_size,
                                                  total_headers + 1, headers_to_submit_count)

RECURSIVE TakeWhileSkipping(_, _, _, _, _, _)
\* the closure of select_headers_to_submit as a filter: a header that does
\* not fit is passed over and the walk goes on
TakeWhileSkipping(p, ids, i, total_size, total_headers, headers_to_submit_count) ==
    IF i > Len(ids) THEN <<>>
    ELSE IF total_headers = headers_to_submit_count THEN <<>>
    ELSE IF total_headers = p.max_headers_in_single_submit THEN <<>>
    ELSE LET encoded_size == EstimateSize(ids[i])
         IN  IF total_headers # 0
                   /\ total_size + encoded_size > p.max_headers_size_in_single_submit
             THEN TakeWhileSkipping(p, ids, i + 1, total_size, total_headers,
                                    headers_to_submit_count)
             ELSE <<ids[i]>> \o TakeWhileSkipping(p, ids, i + 1,
                                                  total_size + encoded_size,
                                                  total_headers + 1,
                                                  headers_to_submit_count)

RECURSIVE TakeWhileAllFit(_, _, _, _, _, _)
\* the closure holding the first header to the size cap as well
TakeWhileAllFit(p, ids, i, total_size, total_headers, headers_to_submit_count) ==
    IF i > Len(ids) THEN <<>>
    ELSE IF total_headers = headers_to_submit_count THEN <<>>
    ELSE IF total_headers = p.max_headers_in_single_submit THEN <<>>
    ELSE LET encoded_size == EstimateSize(ids[i])
         IN  IF total_size + encoded_size > p.max_headers_size_in_single_submit
             THEN <<>>
             ELSE <<ids[i]>> \o TakeWhileAllFit(p, ids, i + 1, total_size + encoded_size,
                                                total_headers + 1, headers_to_submit_count)

RECURSIVE TakeWhileOverBudget(_, _, _, _, _, _)
\* the closure without the stop at headers_to_submit_count
TakeWhileOverBudget(p, ids, i, total_size, total_headers, headers_to_submit_count) ==
    IF i > Len(ids) THEN <<>>
    ELSE IF total_headers = p.max_headers_in_single_submit THEN <<>>
    ELSE LET encoded_size == EstimateSize(ids[i])
         IN  IF total_headers # 0
                   /\ total_size + encoded_size > p.max_headers_size_in_single_submit
             THEN <<>>
             ELSE <<ids[i]>> \o TakeWhileOverBudget(p, ids, i + 1,
                                                    total_size + encoded_size,
                                                    total_headers + 1,
                                                    headers_to_submit_count)

RECURSIVE TakeWhile(_, _, _, _, _, _)
\* headers(status, f) with the closure of select_headers_to_submit: walk the
\* sorted ids from position i, carrying total_size and total_headers; stop at
\* the first id the closure rejects
TakeWhile(p, ids, i, total_size, total_headers, headers_to_submit_count) ==
    IF i > Len(ids) THEN <<>>
    ELSE IF total_headers = headers_to_submit_count THEN <<>>
    ELSE IF total_headers = p.max_headers_in_single_submit THEN <<>>
    ELSE LET encoded_size == EstimateSize(ids[i])
         IN  IF total_headers # 0
                  /\ total_size + encoded_size > p.max_headers_size_in_single_submit
             THEN <<>>
             ELSE <<ids[i]>> \o TakeWhile(p, ids, i + 1, total_size + encoded_size,
                                          total_headers + 1, headers_to_submit_count)

\* ------------------------------------------------------------- messages
\* MessageNonce is an unsigned integer of NonceBits bits.
NonceBits == 3

\* MessageNonce::MAX
NonceMax == 2 ^ NonceBits - 1

\* checked_sub and checked_add on MessageNonce
CheckedSub(a, b) == IF a >= b THEN Some(a - b) ELSE None

CheckedAdd(a, b) == IF a + b <= NonceMax THEN Some(a + b) ELSE None

\* wrapping_add on MessageNonce
WrappingAdd(a, b) == Some((a + b) % (NonceMax + 1))

\* total_unrewarded_messages(relayers) that adds one with wrap-around
TotalUnrewardedMessagesWrapping(relayers) ==
    IF relayers = <<>> THEN Some(0)
    ELSE LET begin == relayers[1][1]
             end == relayers[Len(relayers)][2]
             difference == CheckedSub(end, begin)
         IN  IF difference # None THEN WrappingAdd(difference[1], 1)
             ELSE Some(0)

\* total_unrewarded_messages(relayers)
TotalUnrewardedMessages(relayers) ==
    IF relayers = <<>> THEN Some(0)
    ELSE LET begin == relayers[1][1]
             end == relayers[Len(relayers)][2]
             difference == CheckedSub(end, begin)
         IN  IF difference # None THEN CheckedAdd(difference[1], 1)
             ELSE Some(0)

\* ------------------------------------------------------------- HeadersSync
VARIABLES
    params,              \* HeadersSyncParams
    source_best_number,  \* Option<Number>
    target_best_header,  \* Option<HeaderId>
    headers,             \* QueuedHeaders
    target_known,        \* history: the ids the target node has said it knows
    returned,            \* history: the ids of the batches handed to the caller
    relayers,            \* InboundLaneData::relayers
    total_messages       \* UnrewardedRelayersState::total_messages

vars ==
    <<params, source_best_number, target_best_header, headers, target_known,
      returned, relayers, total_messages>>

\* HeadersSyncParams
Params(future, submitted, single, size, depth, mode) ==
    [ max_future_headers_to_download |-> future,
      max_headers_in_submitted_status |-> submitted,
      max_headers_in_single_submit |-> single,
      max_headers_size_in_single_submit |-> size,
      prune_depth |-> depth,
      target_tx_mode |-> mode ]

\* the parameter sets the scheduler is created with
ParamsSet ==
    { Params(2, 2, 2, 2, 1, Signed),
      Params(3, 1, 1, 1, 0, Backup),
      Params(1, 2, 2, 1, 2, Unsigned) }

\* HeadersSync::new(params)
New(p) ==
    [ params |-> p, source_best_number |-> None,
      target_best_header |-> None, headers |-> NewQueue ]

\* the scheduler (`self`) in the current state
Self ==
    [ params |-> params, source_best_number |-> source_best_number,
      target_best_header |-> target_best_header, headers |-> headers ]

\* select_new_header_to_download() that looks at the target's best header
\* only, not at the queue
SelectNewHeaderAboveTarget(self) ==
    IF self.source_best_number = None THEN None
    ELSE IF self.target_best_header = None THEN None
    ELSE IF TotalHeaders(self.headers) >= self.params.max_future_headers_to_download
    THEN None
    ELSE LET best_downloaded_number == self.target_best_header[1][1]
         IN  IF best_downloaded_number = self.source_best_number[1] THEN None
             ELSE Some(best_downloaded_number + 1)

\* select_new_header_to_download() without the check of the queue's size
SelectNewHeaderUnbounded(self) ==
    IF self.source_best_number = None THEN None
    ELSE IF self.target_best_header = None THEN None
    ELSE LET best_downloaded_number ==
                 Max(BestQueuedNumber(self.headers), self.target_best_header[1][1])
         IN  IF best_downloaded_number = self.source_best_number[1] THEN None
             ELSE Some(best_downloaded_number + 1)

\* select_new_header_to_download() that lets the queue go one past
\* max_future_headers_to_download
SelectNewHeaderPastCapacity(self) ==
    IF self.source_best_number = None THEN None
    ELSE IF self.target_best_header = None THEN None
    ELSE IF TotalHeaders(self.headers) > self.params.max_future_headers_to_download
    THEN None
    ELSE LET best_downloaded_number ==
                 Max(BestQueuedNumber(self.headers), self.target_best_header[1][1])
         IN  IF best_downloaded_number = self.source_best_number[1] THEN None
             ELSE Some(best_downloaded_number + 1)

\* select_new_header_to_download()
SelectNewHeaderToDownload(self) ==
    IF self.source_best_number = None THEN None
    ELSE IF self.target_best_header = None THEN None
    ELSE IF TotalHeaders(self.headers) >= self.params.max_future_headers_to_download
    THEN None
    ELSE LET best_downloaded_number ==
                 Max(BestQueuedNumber(self.headers), self.target_best_header[1][1])
         IN  IF best_downloaded_number = self.source_best_number[1] THEN None
             ELSE Some(best_downloaded_number + 1)

\* select_headers_to_submit(stalled) that never submits in Backup mode
SelectHeadersNeverInBackup(self, stalled) ==
    IF self.params.target_tx_mode = Backup THEN None
    ELSE IF self.params.max_headers_in_submitted_status
                < HeadersInStatus(self.headers, Submitted)
    THEN None
    ELSE LET headers_to_submit_count ==
                 self.params.max_headers_in_submitted_status
                 - HeadersInStatus(self.headers, Submitted)
             selected == TakeWhile(self.params, SortIds(self.headers.ready), 1, 0, 0,
                                   headers_to_submit_count)
         IN  IF selected = <<>> THEN None ELSE Some(selected)

\* select_headers_to_submit(stalled) that does not count the submitted headers
SelectHeadersIgnoringSubmitted(self, stalled) ==
    IF self.params.target_tx_mode = Backup /\ ~stalled THEN None
    ELSE LET headers_to_submit_count == self.params.max_headers_in_submitted_status
             selected == TakeWhile(self.params, SortIds(self.headers.ready), 1, 0, 0,
                                   headers_to_submit_count)
         IN  IF selected = <<>> THEN None ELSE Some(selected)

\* select_headers_to_submit(stalled) that walks the submitted headers too
SelectHeadersAlsoSubmitted(self, stalled) ==
    IF self.params.target_tx_mode = Backup /\ ~stalled THEN None
    ELSE IF self.params.max_headers_in_submitted_status
                < HeadersInStatus(self.headers, Submitted)
    THEN None
    ELSE LET headers_to_submit_count ==
                 self.params.max_headers_in_submitted_status
                 - HeadersInStatus(self.headers, Submitted)
             selected == TakeWhile(self.params,
                                   SortIds(self.headers.ready \cup self.headers.submitted),
                                   1, 0, 0, headers_to_submit_count)
         IN  IF selected = <<>> THEN None ELSE Some(selected)

\* select_headers_to_submit(stalled)
SelectHeadersToSubmit(self, stalled) ==
    IF self.params.target_tx_mode = Backup /\ ~stalled THEN None
    ELSE IF self.params.max_headers_in_submitted_status
                < HeadersInStatus(self.headers, Submitted)
    THEN None
    ELSE LET headers_to_submit_count ==
                 self.params.max_headers_in_submitted_status
                 - HeadersInStatus(self.headers, Submitted)
             selected == TakeWhile(self.params, SortIds(self.headers.ready), 1, 0, 0,
                                   headers_to_submit_count)
         IN  IF selected = <<>> THEN None ELSE Some(selected)

\* is_almost_synced() that takes a distance of four for almost synced
IsAlmostSyncedWithin(self) ==
    IF self.source_best_number = None THEN TRUE
    ELSE IF self.target_best_header = None THEN FALSE
    ELSE SaturatingSub(self.source_best_number[1], self.target_best_header[1][1]) <= 4

\* is_almost_synced()
IsAlmostSynced(self) ==
    IF self.source_best_number = None THEN TRUE
    ELSE IF self.target_best_header = None THEN FALSE
    ELSE SaturatingSub(self.source_best_number[1], self.target_best_header[1][1]) < 4

\* source_best_header_number_response(best_header_number)
SourceBestHeaderNumberResponseOf(self, best_header_number) ==
    [self EXCEPT !.source_best_number = Some(best_header_number)]

\* the border without the prune depth
TargetPruneBorderNoDepth(self, best_header) == best_header[1]

\* the border handed to prune by target_best_header_response
TargetPruneBorder(self, best_header) ==
    SaturatingSub(best_header[1], self.params.prune_depth)

\* target_best_header_response(best_header) without the early return
TargetBestHeaderResponseAlways(self, best_header) ==
    LET q1 == QTargetBestHeaderResponse(self.headers, best_header)
        q2 == QPrune(q1, TargetPruneBorder(self, best_header))
    IN  [self |-> [self EXCEPT !.headers = q2,
                               !.target_best_header = Some(best_header)],
         ret |-> TRUE]

\* target_best_header_response(best_header) that knows the recorded header
\* by its number
TargetBestHeaderResponseByNumber(self, best_header) ==
    IF self.target_best_header # None
          /\ self.target_best_header[1][1] = best_header[1]
    THEN [self |-> self, ret |-> FALSE]
    ELSE LET q1 == QTargetBestHeaderResponse(self.headers, best_header)
             q2 == QPrune(q1, TargetPruneBorder(self, best_header))
         IN  [self |-> [self EXCEPT !.headers = q2,
                                    !.target_best_header = Some(best_header)],
              ret |-> TRUE]

\* target_best_header_response(best_header) that records the header and
\* tells the queue nothing
TargetBestHeaderResponseUnforwarded(self, best_header) ==
    IF self.target_best_header = Some(best_header)
    THEN [self |-> self, ret |-> FALSE]
    ELSE [self |-> [self EXCEPT !.target_best_header = Some(best_header)],
          ret |-> TRUE]

\* target_best_header_response(best_header): the scheduler afterwards and
\* the returned flag
TargetBestHeaderResponseOf(self, best_header) ==
    IF self.target_best_header = Some(best_header)
    THEN [self |-> self, ret |-> FALSE]
    ELSE LET q1 == QTargetBestHeaderResponse(self.headers, best_header)
             q2 == QPrune(q1, TargetPruneBorder(self, best_header))
         IN  [self |-> [self EXCEPT !.headers = q2,
                                    !.target_best_header = Some(best_header)],
              ret |-> TRUE]

\* headers_mut().header_response(header)
HeaderResponseOf(self, id) ==
    [self EXCEPT !.headers = QHeaderResponse(self.headers, id)]

\* headers_mut().maybe_orphan_response(id, response)
MaybeOrphanResponseOf(self, id, response) ==
    [self EXCEPT !.headers = QMaybeOrphanResponse(self.headers, id, response)]

\* headers_mut().maybe_extra_response(id, response)
MaybeExtraResponseOf(self, id, response) ==
    [self EXCEPT !.headers = QMaybeExtraResponse(self.headers, id, response)]

\* headers_mut().headers_submitted(ids)
HeadersSubmittedOf(self, ids) ==
    [self EXCEPT !.headers = QHeadersSubmitted(self.headers, ids)]

\* restart() that keeps the target's best header
RestartKeepingTarget(self) ==
    [self EXCEPT !.source_best_number = None,
                 !.headers = QClear(self.headers)]

\* restart()
RestartOf(self) ==
    [self EXCEPT !.source_best_number = None,
                 !.target_best_header = None,
                 !.headers = QClear(self.headers)]

Init ==
    /\ params \in ParamsSet
    /\ source_best_number = New(params).source_best_number
    /\ target_best_header = New(params).target_best_header
    /\ headers = New(params).headers
    /\ target_known = {}
    /\ returned = {}
    /\ relayers = <<>>
    /\ total_messages = TotalUnrewardedMessages(relayers)

\* the scheduler becomes `self`
Becomes(self) ==
    /\ params' = self.params
    /\ source_best_number' = self.source_best_number
    /\ target_best_header' = self.target_best_header
    /\ headers' = self.headers
    /\ UNCHANGED <<relayers, total_messages>>

RECURSIVE ChainTo(_)
\* id and all its ancestors
ChainTo(id) == IF id \in HeaderIds THEN {id} \cup ChainTo(ParentId(id)) ELSE {}

\* A target node that knows a header knows its ancestors.  The history is
\* kept by the specifications that track it and stays empty in the others.
TargetKnows(tracking, id) ==
    target_known' = IF tracking THEN target_known \cup ChainTo(id) ELSE target_known

SourceBestHeaderNumberResponse(n) ==
    /\ Becomes(SourceBestHeaderNumberResponseOf(Self, n))
    /\ UNCHANGED <<target_known, returned>>

TargetBestHeaderResponse(best_header, tracking) ==
    /\ Becomes(TargetBestHeaderResponseOf(Self, best_header).self)
    /\ TargetKnows(tracking, best_header)
    /\ UNCHANGED returned

Restart ==
    /\ Becomes(RestartOf(Self))
    /\ target_known' = {}
    /\ returned' = {}

HeaderResponse(id) ==
    /\ Becomes(HeaderResponseOf(Self, id))
    /\ UNCHANGED <<target_known, returned>>

MaybeOrphanResponse(id, response, tracking) ==
    /\ Becomes(MaybeOrphanResponseOf(Self, id, response))
    /\ IF response THEN TargetKnows(tracking, id) ELSE UNCHANGED target_known
    /\ UNCHANGED returned

MaybeExtraResponse(id, response) ==
    /\ Becomes(MaybeExtraResponseOf(Self, id, response))
    /\ UNCHANGED <<target_known, returned>>

HeadersSubmitted(ids) ==
    /\ Becomes(HeadersSubmittedOf(Self, ids))
    /\ UNCHANGED <<target_known, returned>>

\* one call of any operation, with any arguments
Step(tracking) ==
    \/ \E n \in SourceNumbers : SourceBestHeaderNumberResponse(n)
    \/ \E id \in HeaderIds : TargetBestHeaderResponse(id, tracking)
    \/ \E id \in HeaderIds : HeaderResponse(id)
    \/ \E id \in HeaderIds, response \in BOOLEAN :
            MaybeOrphanResponse(id, response, tracking)
    \/ \E id \in HeaderIds, response \in BOOLEAN : MaybeExtraResponse(id, response)
    \/ \E ids \in {{id} : id \in HeaderIds} \cup {headers.ready} : HeadersSubmitted(ids)
    \/ Restart

Next == Step(FALSE)

Spec == Init /\ [][Next]_vars

\* The same operations with the history of the target's answers tracked,
\* for one parameter set.
InitTracking == Init /\ params = Params(2, 2, 2, 2, 1, Signed)

NextTracking == Step(TRUE)

SpecTracking == InitTracking /\ [][NextTracking]_vars

\* the headers of a batch
BatchIds(batch) == {batch[i] : i \in 1..Len(batch)}

\* The caller that hands every batch select_headers_to_submit returns to
\* headers_submitted at once, and calls headers_submitted with nothing else
\* (sync.rs:287-288).
SubmitSelected(stalled) ==
    LET batch == SelectHeadersToSubmit(Self, stalled)
    IN  /\ batch # None
        /\ Becomes(HeadersSubmittedOf(Self, BatchIds(batch[1])))
        /\ returned' = returned \cup BatchIds(batch[1])
        /\ UNCHANGED target_known

NextSubmit ==
    \/ \E n \in SourceNumbers : SourceBestHeaderNumberResponse(n)
    \/ \E id \in HeaderIds : TargetBestHeaderResponse(id, FALSE)
    \/ \E id \in HeaderIds : HeaderResponse(id)
    \/ \E id \in HeaderIds, response \in BOOLEAN :
            MaybeOrphanResponse(id, response, FALSE)
    \/ \E id \in HeaderIds, response \in BOOLEAN : MaybeExtraResponse(id, response)
    \/ \E stalled \in BOOLEAN : SubmitSelected(stalled)
    \/ Restart

SpecSubmit == Init /\ [][NextSubmit]_vars

\* The heights alone: the source reports any height up to MaxHeight, the
\* target any header.
MaxHeight == 6

SourceHeights == 0..MaxHeight

NextHeights ==
    \/ \E n \in SourceHeights : SourceBestHeaderNumberResponse(n)
    \/ \E id \in HeaderIds : TargetBestHeaderResponse(id, FALSE)
    \/ Restart

SpecHeights == Init /\ [][NextHeights]_vars

\* The caller that hands header_response only a header of the number
\* select_new_header_to_download() has just returned (sync.rs:260-262).
DownloadSelected(id) ==
    /\ SelectNewHeaderToDownload(Self) = Some(id[1])
    /\ HeaderResponse(id)

NextDownload ==
    \/ \E n \in SourceNumbers : SourceBestHeaderNumberResponse(n)
    \/ \E id \in HeaderIds : TargetBestHeaderResponse(id, FALSE)
    \/ \E id \in HeaderIds : DownloadSelected(id)
    \/ \E id \in HeaderIds, response \in BOOLEAN :
            MaybeOrphanResponse(id, response, FALSE)
    \/ \E id \in HeaderIds, response \in BOOLEAN : MaybeExtraResponse(id, response)
    \/ \E ids \in {{id} : id \in HeaderIds} \cup {headers.ready} : HeadersSubmitted(ids)
    \/ Restart

SpecDownload == Init /\ [][NextDownload]_vars

\* The inbound lane alone: entries are put at the back of relayers and the
\* total of unrewarded messages is computed from it.
MaxEntries == 2

\* the nonces at both ends of MessageNonce
Nonces == {0, 1, NonceMax - 1, NonceMax}

RelayerIds == {1}

\* (first nonce, last nonce, relayer)
Entries == Nonces \X Nonces \X RelayerIds

\* the lane becomes `lane`
LaneBecomes(lane) ==
    /\ relayers' = lane
    /\ total_messages' = TotalUnrewardedMessages(lane)
    /\ UNCHANGED <<params, source_best_number, target_best_header, headers,
                   target_known, returned>>

PushBack(entry) ==
    /\ Len(relayers) < MaxEntries
    /\ LaneBecomes(Append(relayers, entry))

InitMessages == Init /\ params = Params(2, 2, 2, 2, 1, Signed)

NextMessages == \E entry \in Entries : PushBack(entry)

SpecMessages == InitMessages /\ [][NextMessages]_vars

\* A synchronization run on one chain (tests::sync_without_reorgs_works):
\* the source stays at MaxNumber, the target starts below it, and the
\* environment ingests every requested download, answers every extra-data
\* probe with false, submits every selected batch and has the target import
\* what was submitted.  Every limit is positive, the mode is Signed or
\* Unsigned, and there is no restart.
SyncParamsSet ==
    { Params(future, submitted, single, size, depth, mode) :
        future \in 1..2, submitted \in 1..2, single \in 1..2, size \in 1..2,
        depth \in 0..1, mode \in {Signed, Unsigned} }

InitSync ==
    \E p \in SyncParamsSet, t \in 0..(MaxNumber - 1) :
        LET s1 == SourceBestHeaderNumberResponseOf(New(p), MaxNumber)
            s2 == TargetBestHeaderResponseOf(s1, <<t, MainHash>>).self
        IN  /\ params = s2.params
            /\ source_best_number = s2.source_best_number
            /\ target_best_header = s2.target_best_header
            /\ headers = s2.headers
            /\ target_known = {}
            /\ returned = {}
            /\ relayers = <<>>
            /\ total_messages = TotalUnrewardedMessages(relayers)

\* the requested header of the chain is downloaded and ingested
Downloaded == \E id \in HeaderIds : id[2] = MainHash /\ DownloadSelected(id)

\* the probe of a MaybeExtra header is answered: no extra data required
ExtraProbed == \E id \in headers.maybe_extra : MaybeExtraResponse(id, FALSE)

\* the selected batch is submitted
Submit == \E stalled \in BOOLEAN : SubmitSelected(stalled)

\* the target imports a submitted header and reports it as its best header
Imported == \E id \in headers.submitted : TargetBestHeaderResponse(id, FALSE)

NextSync ==
    \/ Downloaded
    \/ ExtraProbed
    \/ Submit
    \/ Imported

SpecSync ==
    /\ InitSync
    /\ [][NextSync]_vars
    /\ WF_vars(Downloaded)
    /\ WF_vars(ExtraProbed)
    /\ WF_vars(Submit)
    /\ WF_vars(Imported)

\* --------------------------------------------------------------- claims
\* best_downloaded of select_new_header_to_download, as the claims name it
BestDownloaded(self) ==
    Max(BestQueuedNumber(self.headers), self.target_best_header[1][1])

HeightsKnown(self) ==
    self.source_best_number # None /\ self.target_best_header # None

UnderCapacity(self) ==
    TotalHeaders(self.headers) < self.params.max_future_headers_to_download

C2_NothingToDownload ==
    /\ source_best_number = None => SelectNewHeaderToDownload(Self) = None
    /\ target_best_header = None => SelectNewHeaderToDownload(Self) = None
    /\ ~UnderCapacity(Self) => SelectNewHeaderToDownload(Self) = None
    /\ (HeightsKnown(Self) /\ BestDownloaded(Self) = source_best_number[1])
           => SelectNewHeaderToDownload(Self) = None

\* backpressure alone holds the download back
C2_Witness ==
    /\ HeightsKnown(Self)
    /\ ~UnderCapacity(Self)
    /\ BestDownloaded(Self) < source_best_number[1]
    /\ SelectNewHeaderToDownload(Self) = None

RECURSIVE SizeOf(_)
\* the cumulative estimated size of a batch
SizeOf(batch) ==
    IF batch = <<>> THEN 0 ELSE EstimateSize(Head(batch)) + SizeOf(Tail(batch))

\* C3: a batch returned by select_headers_to_submit holds at most
\* max_headers_in_single_submit headers, and its cumulative size is within
\* max_headers_size_in_single_submit unless the batch is its first header
\* alone.
C3_BatchWithinLimits ==
    \A stalled \in BOOLEAN :
        LET batch == SelectHeadersToSubmit(Self, stalled)
        IN  batch # None =>
              /\ Len(batch[1]) <= params.max_headers_in_single_submit
              /\ Len(batch[1]) > 1 =>
                    SizeOf(batch[1]) <= params.max_headers_size_in_single_submit

\* the size cap, not a count, ends a batch before the last ready header
C3_Witness ==
    \E stalled \in BOOLEAN :
        LET batch == SelectHeadersToSubmit(Self, stalled)
        IN  /\ batch # None
            /\ Len(batch[1]) < Cardinality(headers.ready)
            /\ Len(batch[1]) < params.max_headers_in_single_submit
            /\ Len(batch[1]) + HeadersInStatus(headers, Submitted)
                   < params.max_headers_in_submitted_status

\* the scheduler with another target transaction mode
WithMode(self, mode) == [self EXCEPT !.params.target_tx_mode = mode]

\* C4: in Backup mode select_headers_to_submit(false) returns nothing, and
\* select_headers_to_submit(true) returns what Signed and Unsigned mode
\* return in the same state.
C4_BackupMode ==
    params.target_tx_mode = Backup =>
        /\ SelectHeadersToSubmit(Self, FALSE) = None
        /\ SelectHeadersToSubmit(Self, TRUE)
               = SelectHeadersToSubmit(WithMode(Self, Signed), TRUE)
        /\ SelectHeadersToSubmit(Self, TRUE)
               = SelectHeadersToSubmit(WithMode(Self, Unsigned), TRUE)
        /\ SelectHeadersToSubmit(Self, TRUE)
               = SelectHeadersToSubmit(WithMode(Self, Signed), FALSE)

\* Backup mode with a ready header: nothing unless stalled
C4_Witness ==
    /\ params.target_tx_mode = Backup
    /\ headers.ready # {}
    /\ SelectHeadersToSubmit(Self, TRUE) # None
    /\ SelectHeadersToSubmit(Self, FALSE) = None

PrunedBy(self, id) ==
    LET q1 == QTargetBestHeaderResponse(self.headers, id)
    IN  Tracked(q1) \ Tracked(QPrune(q1, TargetPruneBorder(self, id)))

C7_HeaderResponseIdempotent ==
    \A id \in Tracked(headers) :
        LET q == HeaderResponseOf(Self, id).headers
        IN  /\ TotalHeaders(q) = TotalHeaders(headers)
            /\ \A h \in HeaderIds : Status(q, h) = Status(headers, h)
            /\ \A status \in QueueStatuses : QueueOf(q, status) = QueueOf(headers, status)

\* a header that went on to Ready or Submitted can be delivered again
C7_Witness ==
    /\ headers.ready # {}
    /\ headers.submitted # {}
    /\ headers.maybe_extra # {}

\* C9: each id is in at most one status queue, the index agrees with the
\* queues, and total_headers() counts each tracked header once.
C9_OneStatusPerHeader ==
    /\ \A s1, s2 \in QueueStatuses :
          s1 # s2 => QueueOf(headers, s1) \cap QueueOf(headers, s2) = {}
    /\ \A id \in HeaderIds, status \in QueueStatuses :
          id \in QueueOf(headers, status) <=> Status(headers, id) = status
    /\ TotalHeaders(headers) = Cardinality(Tracked(headers))

\* headers in four different statuses at once
C9_Witness ==
    /\ headers.orphan # {}
    /\ headers.maybe_extra # {}
    /\ headers.ready # {}
    /\ headers.submitted # {}

\* what any operation but restart() makes of the scheduler
OtherOperations(self) ==
    {SourceBestHeaderNumberResponseOf(self, n) : n \in SourceNumbers}
    \cup {TargetBestHeaderResponseOf(self, id).self : id \in HeaderIds}
    \cup {HeaderResponseOf(self, id) : id \in HeaderIds}
    \cup {MaybeOrphanResponseOf(self, id, b) : id \in HeaderIds, b \in BOOLEAN}
    \cup {MaybeExtraResponseOf(self, id, b) : id \in HeaderIds, b \in BOOLEAN}
    \cup {HeadersSubmittedOf(self, ids) : ids \in SUBSET self.headers.ready}

Cleared(self) ==
    /\ self.source_best_number = None
    /\ self.target_best_header = None
    /\ TotalHeaders(self.headers) = 0

\* C10: after restart() both heights are unknown and the queue is empty,
\* both selections return nothing and the scheduler equals a new one with
\* the same parameters; no other operation clears the heights and the queue.
C10_Restart ==
    /\ Cleared(RestartOf(Self))
    /\ RestartOf(Self) = New(params)
    /\ SelectNewHeaderToDownload(RestartOf(Self)) = None
    /\ \A stalled \in BOOLEAN : SelectHeadersToSubmit(RestartOf(Self), stalled) = None
    /\ ~Cleared(Self) => \A other \in OtherOperations(Self) : ~Cleared(other)

\* a scheduler with everything to lose: both heights, queued headers, a
\* moved prune border, something to download and something to submit
C10_Witness ==
    /\ HeightsKnown(Self)
    /\ TotalHeaders(headers) > 1
    /\ PruneBorder(headers) > 0
    /\ SelectNewHeaderToDownload(Self) # None
    /\ SelectHeadersToSubmit(Self, TRUE) # None

\* C8 as stated: a header in status Ready has a parent that is Ready,
\* Submitted, or already confirmed by the target.
C8_ReadyParentResolved ==
    \A id \in headers.ready :
        \/ Status(headers, ParentId(id)) \in {Ready, Submitted, Synced}
        \/ ParentId(id) \in target_known

\* what select_headers_to_submit leaves of the submission budget
RemainingBudget(self) ==
    self.params.max_headers_in_submitted_status
        - HeadersInStatus(self.headers, Submitted)

\* C11: select_headers_to_submit returns nothing while the number of
\* Submitted headers is at or above max_headers_in_submitted_status, ready
\* headers or not; a returned batch is never longer than
\* max_headers_in_submitted_status less the number of Submitted headers; and
\* when the target reports a submitted header as its best header, that header
\* is not Submitted any more and, the budget being open again, a header that
\* is Ready is selectable.
C11_SubmissionBudget ==
    /\ \A stalled \in BOOLEAN :
          LET batch == SelectHeadersToSubmit(Self, stalled)
          IN  /\ RemainingBudget(Self) <= 0 => batch = None
              /\ batch # None => Len(batch[1]) <= RemainingBudget(Self)
    /\ \A id \in headers.submitted :
          LET r == TargetBestHeaderResponseOf(Self, id).self
          IN  /\ id \notin r.headers.submitted
              /\ RemainingBudget(r) > RemainingBudget(Self)
              /\ (r.headers.ready # {} /\ RemainingBudget(Self) = 0)
                     => SelectHeadersToSubmit(r, TRUE) # None

\* the budget is used up while a header is Ready, and a report of a
\* submitted header by the target makes that header selectable
C11_Witness ==
    /\ RemainingBudget(Self) = 0
    /\ headers.ready # {}
    /\ SelectHeadersToSubmit(Self, TRUE) = None
    /\ \E id \in headers.submitted :
          LET r == TargetBestHeaderResponseOf(Self, id).self
          IN  /\ r.headers.ready = headers.ready
              /\ SelectHeadersToSubmit(r, TRUE) # None

\* id is in the batch select_headers_to_submit returned
InBatch(id, batch) ==
    batch # None /\ \E i \in 1..Len(batch[1]) : batch[1][i] = id

\* first comes before second in the batch
Before(first, second, batch) ==
    batch # None /\ \E i, j \in 1..Len(batch[1]) :
        i < j /\ batch[1][i] = first /\ batch[1][j] = second

\* the scheduler after negative maybe_extra_response answers for some of ids
ExtraAnswered(self, ids) ==
    {self} \cup {MaybeExtraResponseOf(self, id, FALSE) : id \in ids}
    \cup {MaybeExtraResponseOf(MaybeExtraResponseOf(self, id1, FALSE), id2, FALSE) :
             id1 \in ids, id2 \in ids}

\* a header ingested while its parent's status is unknown is MaybeOrphan
\* and is not selectable
C12_Ingested ==
    \A id \in HeaderIds :
        /\ Status(headers, id) = Unknown
        /\ id[1] >= PruneBorder(headers)
        /\ Status(headers, ParentId(id)) = Unknown
        => LET s1 == HeaderResponseOf(Self, id)
           IN  /\ Status(s1.headers, id) = MaybeOrphan
               /\ \A stalled \in BOOLEAN :
                     ~InBatch(id, SelectHeadersToSubmit(s1, stalled))

\* a negative probe for the parent of a MaybeOrphan header makes it Orphan
C12_NegativeProbe ==
    \A child \in headers.maybe_orphan :
        Status(MaybeOrphanResponseOf(Self, ParentId(child), FALSE).headers, child) = Orphan

\* the parent of an orphan is downloaded and its own parent is confirmed:
\* parent and child are MaybeExtra
C12_PositiveProbe ==
    \A child \in headers.orphan :
        LET parent == ParentId(child)
            s1 == HeaderResponseOf(Self, parent)
            s2 == MaybeOrphanResponseOf(s1, ParentId(parent), TRUE)
        IN  Status(s1.headers, parent) \in {MaybeOrphan, Orphan} =>
               /\ Status(s2.headers, parent) = MaybeExtra
               /\ Status(s2.headers, child) = MaybeExtra

\* from there on the child is in a returned batch only after its parent
C12_ParentFirst ==
    \A child \in headers.orphan :
        LET parent == ParentId(child)
            s1 == HeaderResponseOf(Self, parent)
            s2 == MaybeOrphanResponseOf(s1, ParentId(parent), TRUE)
        IN  Status(s1.headers, parent) \in {MaybeOrphan, Orphan} =>
               \A s3 \in ExtraAnswered(s2, {parent, child}), stalled \in BOOLEAN :
                   LET batch == SelectHeadersToSubmit(s3, stalled)
                   IN  InBatch(child, batch) => Before(parent, child, batch)

\* C12: a header ingested while its parent's status is unknown becomes
\* MaybeOrphan and is not selectable; a negative probe for its parent makes
\* it Orphan; after the parent is downloaded and a positive probe arrives for
\* the parent's parent, parent and child are MaybeExtra, and on the way to
\* Ready the parent is selected for submission before the child.
C12_OrphanResolution ==
    /\ C12_Ingested
    /\ C12_NegativeProbe
    /\ C12_PositiveProbe
    /\ C12_ParentFirst

C14_NoResubmission ==
    \A stalled \in BOOLEAN :
        LET batch == SelectHeadersToSubmit(Self, stalled)
        IN  /\ \A id \in headers.submitted : ~InBatch(id, batch)
            /\ \A id \in returned : ~InBatch(id, batch)

\* a second batch is about to be returned after the target has confirmed a
\* header of an earlier one and another is still Submitted
C14_Witness ==
    /\ headers.submitted # {}
    /\ \E id \in returned : Status(headers, id) = Synced
    /\ SelectHeadersToSubmit(Self, TRUE) # None

\* C15: a batch returned by select_headers_to_submit is a prefix of the Ready
\* headers in ascending number order: its headers are Ready, they are in
\* ascending order of number, and no Ready header with a lower number than a
\* returned header is left out.
C15_BatchIsReadyPrefix ==
    \A stalled \in BOOLEAN :
        LET batch == SelectHeadersToSubmit(Self, stalled)
        IN  batch # None =>
              /\ BatchIds(batch[1]) \subseteq headers.ready
              /\ Cardinality(BatchIds(batch[1])) = Len(batch[1])
              /\ \A i, j \in 1..Len(batch[1]) :
                    i < j => batch[1][i][1] <= batch[1][j][1]
              /\ \A left \in headers.ready \ BatchIds(batch[1]) :
                    \A id \in BatchIds(batch[1]) : left[1] >= id[1]

\* a batch of two headers of different numbers that leaves a header Ready
C15_Witness ==
    \E stalled \in BOOLEAN :
        LET batch == SelectHeadersToSubmit(Self, stalled)
        IN  /\ batch # None
            /\ Len(batch[1]) = 2
            /\ batch[1][1][1] < batch[1][2][1]
            /\ headers.ready \ BatchIds(batch[1]) # {}

\* C16: with a Ready header, a remaining submission budget of at least one,
\* max_headers_in_single_submit of at least one and not Backup mode with
\* stalled = false, select_headers_to_submit returns a batch that is not
\* empty and starts with the lowest-numbered Ready header, whatever that
\* header's size; and it never returns an empty batch.
C16_ForwardProgress ==
    \A stalled \in BOOLEAN :
        LET batch == SelectHeadersToSubmit(Self, stalled)
        IN  /\ batch # Some(<<>>)
            /\ ( /\ headers.ready # {}
                 /\ RemainingBudget(Self) >= 1
                 /\ params.max_headers_in_single_submit >= 1
                 /\ ~(params.target_tx_mode = Backup /\ ~stalled) )
               => /\ batch # None
                  /\ Len(batch[1]) >= 1
                  /\ batch[1][1] \in headers.ready
                  /\ \A id \in headers.ready : batch[1][1][1] <= id[1]

\* the first Ready header alone is larger than the size cap and is returned
C16_Witness ==
    \E stalled \in BOOLEAN :
        LET batch == SelectHeadersToSubmit(Self, stalled)
        IN  /\ batch # None
            /\ EstimateSize(batch[1][1]) > params.max_headers_size_in_single_submit
            /\ Cardinality(headers.ready) > 1

\* C17: target_best_header_response(id) with the number of the recorded
\* target header and another hash is a new best header: it returns true,
\* hands id to the queue, prunes, and records id.
C17_IdentityByFullId ==
    \A id \in HeaderIds :
        /\ target_best_header # None
        /\ id[1] = target_best_header[1][1]
        /\ id[2] # target_best_header[1][2]
        => LET r == TargetBestHeaderResponseOf(Self, id)
           IN  /\ r.ret = TRUE
               /\ r.self.target_best_header = Some(id)
               /\ r.self.headers =
                      QPrune(QTargetBestHeaderResponse(headers, id),
                             SaturatingSub(id[1], params.prune_depth))
               /\ Status(r.self.headers, id) = Synced

\* the recorded target header is a side-chain header and the main-chain
\* header of its number was confirmed by the target before
C17_Witness ==
    /\ target_best_header # None
    /\ target_best_header[1][2] = SideHash
    /\ Status(headers, <<target_best_header[1][1], MainHash>>) = Synced

\* C18: is_almost_synced() is true when the source height is unknown; with
\* both heights known it is true exactly when the source height less the
\* number of the target best header, not going below zero, is less than 4;
\* it is false when the source height is known and the target best header
\* is not.
C18_IsAlmostSynced ==
    /\ source_best_number = None => IsAlmostSynced(Self)
    /\ (source_best_number # None /\ target_best_header = None)
           => ~IsAlmostSynced(Self)
    /\ HeightsKnown(Self) =>
           (IsAlmostSynced(Self) <=>
               \/ source_best_number[1] <= target_best_header[1][1]
               \/ source_best_number[1] - target_best_header[1][1] < 4)

\* the source is exactly four headers ahead of the target: not almost synced
C18_Witness ==
    /\ HeightsKnown(Self)
    /\ source_best_number[1] - target_best_header[1][1] = 4
    /\ ~IsAlmostSynced(Self)

\* C19: a number returned by select_new_header_to_download() is at most the
\* source height, also after the source reported a lower height than before
\* and when the target best header or a queued header is above it.
C19_DownloadWithinSource ==
    SelectNewHeaderToDownload(Self) # None =>
        SelectNewHeaderToDownload(Self)[1] <= source_best_number[1]

\* C20: while headers_submitted is only called with the batch
\* select_headers_to_submit has just returned, the number of Submitted
\* headers is never above max_headers_in_submitted_status.
C20_SubmittedWithinLimit ==
    HeadersInStatus(headers, Submitted) <= params.max_headers_in_submitted_status

\* two batches are out, the limit is reached and a header waits Ready
C20_Witness ==
    /\ params.max_headers_in_submitted_status = 2
    /\ HeadersInStatus(headers, Submitted) = 2
    /\ headers.submitted \subseteq returned
    /\ headers.ready # {}

\* C21: while header_response is only called with a header of the number
\* select_new_header_to_download() has just returned, total_headers() is
\* never above max_future_headers_to_download.
C21_QueueWithinCapacity ==
    TotalHeaders(headers) <= params.max_future_headers_to_download

\* the queue is full, the source is ahead, and nothing is asked for
C21_Witness ==
    /\ HeightsKnown(Self)
    /\ TotalHeaders(headers) = params.max_future_headers_to_download
    /\ BestDownloaded(Self) < source_best_number[1]
    /\ SelectNewHeaderToDownload(Self) = None

\* the target is at the source height and nothing is left to do
Synchronized ==
    /\ HeightsKnown(Self)
    /\ target_best_header[1][1] = source_best_number[1]
    /\ SelectNewHeaderToDownload(Self) = None
    /\ \A stalled \in BOOLEAN : SelectHeadersToSubmit(Self, stalled) = None

\* C22: with the source height fixed, the target below it on the same
\* chain, positive limits, Signed or Unsigned mode, no restart and a fair
\* environment, the run eventually reaches a state where the target best
\* header has the source height and both selections return nothing.
C22_EventuallySynchronized == <>Synchronized

\* synchronized after two headers went through submission
C22_Witness ==
    /\ Synchronized
    /\ Cardinality(returned) >= 2
    /\ TotalHeaders(headers) = 0

\* C23: total_unrewarded_messages(relayers) is Some(0) for an empty queue;
\* with begin the first nonce of the front entry and end the last nonce of
\* the back entry it is Some(0) when end < begin, Some(end - begin + 1) when
\* end >= begin and that number fits MessageNonce, and None when it does
\* not; it never wraps around.
C23_TotalUnrewardedMessages ==
    /\ total_messages = TotalUnrewardedMessages(relayers)
    /\ relayers = <<>> => total_messages = Some(0)
    /\ relayers # <<>> =>
          LET begin == Head(relayers)[1]
              end == relayers[Len(relayers)][2]
          IN  /\ end < begin => total_messages = Some(0)
              /\ (end >= begin /\ end - begin + 1 <= NonceMax)
                     => total_messages = Some(end - begin + 1)
              /\ (end >= begin /\ end - begin + 1 > NonceMax)
                     => total_messages = None
    /\ total_messages # None => total_messages[1] \in 0..NonceMax

\* two entries from nonce 0 to MessageNonce::MAX: one message too many
C23_Witness ==
    /\ Len(relayers) = 2
    /\ relayers[1][1] = 0
    /\ relayers[2][2] = NonceMax
    /\ total_messages = None

====
